---------------------------- MODULE Spec2Model ----------------------------
(***************************************************************************)
(* The in-memory trading store of SolonMVP (MemStorage) behind its express *)
(* routes: the order ledger, the portfolio valuation, the mock price       *)
(* series and the waitlist; and, of the client, the cost basis of the      *)
(* Portfolio page and the order form of the Market page.                   *)
(*                                                                         *)
(* JavaScript numbers are IEEE-754 binary floating point.  The model keeps *)
(* that arithmetic, scaled down: a finite number is an integer count of    *)
(* the grid quantum 2^-FracBits, and every result of + and * is rounded to *)
(* Precision significant bits, ties to even (binary64 has 53).  Infinity   *)
(* and NaN are kept; the exponent range is not bounded, no value of the    *)
(* model comes near 2^1024.                                                *)
(***************************************************************************)
EXTENDS Integers, Sequences, FiniteSets, TLC

\* ------------------------------------------------------------- bounds
FracBits == 2
Precision == 10
MaxOrders == 2

\* ------------------------------------------------- JavaScript numbers
RECURSIVE Pow(_, _)
Pow(b, e) == IF e = 0 THEN 1 ELSE b * Pow(b, e - 1)

One == Pow(2, FracBits)

Num(n) == [k |-> "num", n |-> n]
PosInf == [k |-> "inf", n |-> 1]
NegInf == [k |-> "inf", n |-> -1]
NaN == [k |-> "nan", n |-> 0]

\* the number with the decimal value w + q/4 (q quarters)
Dec(w, q) == Num(w * One + (q * One) \div 4)

Abs(n) == IF n < 0 THEN -n ELSE n
Sign(n) == IF n < 0 THEN -1 ELSE IF n > 0 THEN 1 ELSE 0

\* the spacing of the representable numbers around m/d grid quanta
RECURSIVE Quantum(_, _, _)
Quantum(m, d, q) ==
    IF m < Pow(2, Precision) * d * q THEN q ELSE Quantum(m, d, 2 * q)

RoundHalfEven(m, d) ==
    LET f == m \div d
        r == m % d
    IN  IF 2 * r < d THEN f
        ELSE IF 2 * r > d THEN f + 1
        ELSE IF f % 2 = 0 THEN f ELSE f + 1

\* n/d grid quanta rounded to the nearest representable number
RoundTo(n, d) ==
    LET m == Abs(n)
        q == Quantum(m, d, 1)
    IN  Sign(n) * RoundHalfEven(m, d * q) * q

FNeg(x) == IF x.k = "nan" THEN NaN ELSE [k |-> x.k, n |-> -x.n]

FAdd(x, y) ==
    IF x.k = "nan" \/ y.k = "nan" THEN NaN
    ELSE IF x.k = "inf" /\ y.k = "inf" THEN (IF x.n = y.n THEN x ELSE NaN)
    ELSE IF x.k = "inf" THEN x
    ELSE IF y.k = "inf" THEN y
    ELSE Num(RoundTo(x.n + y.n, 1))

FSub(x, y) == FAdd(x, FNeg(y))

FMul(x, y) ==
    IF x.k = "nan" \/ y.k = "nan" THEN NaN
    ELSE IF x.k = "inf" \/ y.k = "inf"
         THEN (IF x.n = 0 \/ y.n = 0 THEN NaN
               ELSE [k |-> "inf", n |-> Sign(x.n) * Sign(y.n)])
    ELSE Num(RoundTo(x.n * y.n, One))

\* x > 0
FPositive(x) == x.k # "nan" /\ x.n > 0


\* ------------------------------------------------- JavaScript strings
\* A numeric string is the sequence of its characters.
DigitChars == <<"0", "1", "2", "3", "4", "5", "6", "7", "8", "9">>
IsDigit(c) == \E d \in 1..10 : DigitChars[d] = c
DigitVal(c) == (CHOOSE d \in 1..10 : DigitChars[d] = c) - 1
InfinityChars == <<"I", "n", "f", "i", "n", "i", "t", "y">>
NaNChars == <<"N", "a", "N">>

RECURSIVE IntDigits(_)
IntDigits(n) ==
    IF n < 10 THEN <<DigitChars[n + 1]>>
    ELSE Append(IntDigits(n \div 10), DigitChars[(n % 10) + 1])

\* the w low decimal digits of n, leading zeros kept
RECURSIVE FixedDigits(_, _)
FixedDigits(n, w) ==
    IF w = 0 THEN <<>>
    ELSE Append(FixedDigits(n \div 10, w - 1), DigitChars[(n % 10) + 1])

RECURSIVE TrimZeros(_)
TrimZeros(s) ==
    IF s # <<>> /\ s[Len(s)] = "0" THEN TrimZeros(SubSeq(s, 1, Len(s) - 1))
    ELSE s

\* Number.prototype.toString, decimal: the digits that read back as x
NumberToString(x) ==
    IF x.k = "nan" THEN NaNChars
    ELSE IF x.k = "inf"
         THEN (IF x.n < 0 THEN <<"-">> ELSE <<>>) \o InfinityChars
    ELSE LET m == Abs(x.n)
             frac == TrimZeros(FixedDigits(((m % One) * Pow(10, FracBits)) \div One,
                                           FracBits))
         IN  (IF x.n < 0 THEN <<"-">> ELSE <<>>)
             \o IntDigits(m \div One)
             \o (IF frac = <<>> THEN <<>> ELSE <<".">> \o frac)

\* the index after the run of digits of s that starts at i
RECURSIVE DigitRunEnd(_, _)
DigitRunEnd(s, i) ==
    IF i <= Len(s) /\ IsDigit(s[i]) THEN DigitRunEnd(s, i + 1) ELSE i

RECURSIVE DigitsValue(_)
DigitsValue(s) ==
    IF s = <<>> THEN 0
    ELSE 10 * DigitsValue(SubSeq(s, 1, Len(s) - 1)) + DigitVal(s[Len(s)])

IsPrefix(p, s) == Len(p) <= Len(s) /\ SubSeq(s, 1, Len(p)) = p

\* parseFloat: the longest prefix of s that is a decimal literal, else NaN
ParseFloat(s) ==
    LET neg == s # <<>> /\ s[1] = "-"
        b == IF neg \/ (s # <<>> /\ s[1] = "+") THEN Tail(s) ELSE s
        e1 == DigitRunEnd(b, 1)
        e2 == IF e1 <= Len(b) /\ b[e1] = "." THEN DigitRunEnd(b, e1 + 1) ELSE e1
        ip == SubSeq(b, 1, e1 - 1)
        fp == IF e2 > e1 THEN SubSeq(b, e1 + 1, e2 - 1) ELSE <<>>
        mag == RoundTo(DigitsValue(ip \o fp) * One, Pow(10, Len(fp)))
    IN  IF IsPrefix(InfinityChars, b) THEN (IF neg THEN NegInf ELSE PosInf)
        ELSE IF ip = <<>> /\ fp = <<>> THEN NaN
        ELSE Num(IF neg THEN -mag ELSE mag)

\* ------------------------------------------------------------ schema
\* A JSON value of a request body: its type and, for a number or a
\* numeric string, the number it denotes.
JNumber(x) == [t |-> "number", v |-> x]
JString(x) == [t |-> "string", v |-> x]

\* mutant: nonnegative() in place of positive()
ZNumberNonNegative(j) == j.t = "number" /\ j.v.k # "nan" /\ j.v.n >= 0

\* z.number().positive(): a number, not NaN, greater than 0
ZNumberPositive(j) == j.t = "number" /\ j.v.k # "nan" /\ FPositive(j.v)

\* mutant: the type is any string
ZOrderTypeAny(t) == TRUE

\* z.enum(["buy", "sell"])
ZOrderType(t) == t \in {"buy", "sell"}

\* z.string().min(1)
ZStringMin1(s) == s # ""

\* insertOrderSchema accepts the body
InsertOrderValid(body) ==
    /\ ZOrderType(body.type)
    /\ ZNumberPositive(body.amount)
    /\ ZNumberPositive(body.price)
    /\ ZStringMin1(body.symbol)

\* Absent marks a key an object lacks.
Absent == 0 - 1

\* insertOrderSchema.parse of an accepted body: the four picked keys, the
\* others (id, timestamp) stripped
InsertOrderParse(body) ==
    [type |-> body.type, amount |-> body.amount.v, price |-> body.price.v,
     symbol |-> body.symbol, id |-> Absent, timestamp |-> Absent]

\* -------------------------------------------------------- MemStorage
VARIABLES
    prices,          \* this.prices: the stored series of TokenPrice
    orders,          \* this.orders: the ledger, in insertion order
    currentId,       \* this.currentId
    waitlistEmails,  \* this.waitlistEmails
    sending,         \* addToWaitlist calls suspended in sendNotificationEmail
    now,             \* the clock new Date() reads, in minutes of local time
    responding,      \* POST /api/orders handlers suspended at their await
    res,             \* the last response sent, with the request it answers
    page             \* the Market page open in a browser: its queries, its
                     \* form and its order mutation

vars ==
    <<prices, orders, currentId, waitlistEmails, sending, now, responding, res,
      page>>

basePrice == 100
INITIAL_BALANCE == 1000

\* Math.random(): the draws of one call of generateMockPrices are the
\* values Draws[..] read cyclically from a start the call picks.
Draws == <<Dec(0, 0), Dec(0, 3), Dec(0, 1), Dec(0, 2)>>
Seeds == {0, 2}
Random(seed, i) == Draws[((seed + i) % Len(Draws)) + 1]

\* mutant: every timeframe gets the default number of points
DataPointsDefault(timeframe) == 24

\* the switch on timeframe: the number of points
DataPoints(timeframe) ==
    CASE timeframe = "1H" -> 60
      [] timeframe = "7D" -> 168
      [] OTHER -> 24

\* hourOffset, in minutes: 1/60 hour for 1H, 1 hour otherwise
HourOffsetMinutes(timeframe) ==
    CASE timeframe = "1H" -> 1
      [] timeframe = "7D" -> 60
      [] OTHER -> 60

\* the integer part of a/b, towards zero (setHours takes ToIntegerOrInfinity)
TruncDiv(a, b) == IF a >= 0 THEN a \div b ELSE -((-a) \div b)

\* new Date() then setHours(getHours() - back hours): the hour field is
\* replaced, the minutes are kept, an hour outside 0..23 carries into the day
SetHoursBack(t, backMinutes) ==
    LET hour == (t \div 60) % 24
        arg == TruncDiv(hour * 60 - backMinutes, 60)
    IN  t + (arg - hour) * 60

\* mutant: the hour field is moved forward
SetHoursForward(t, backMinutes) == SetHoursBack(t, 0 - backMinutes)

\* mutant: every timeframe is perturbed on the wide scale
VolatilityWide(timeframe) == Dec(10, 0)

\* timeframe === "1H" ? 2 : 10
Volatility(timeframe) == IF timeframe = "1H" THEN Dec(2, 0) ELSE Dec(10, 0)

\* mutant: ids count from 0
PointIdFromZero(i) == i

\* id: i + 1
PointId(i) == i + 1

\* The loop of generateMockPrices.  Every iteration reads the clock anew:
\* reads[j] is what new Date() returns in the j-th iteration.
generateMockPrices(timeframe, reads, seed) ==
    LET dataPoints == DataPoints(timeframe)
        hourOffset == HourOffsetMinutes(timeframe)
    IN  [j \in 1..dataPoints |->
            LET i == j - 1
                randomChange ==
                    FMul(FSub(Random(seed, i), Dec(0, 2)), Volatility(timeframe))
                price == FAdd(Dec(basePrice, 0), randomChange)
            IN  [id |-> PointId(i),
                 price |-> NumberToString(price),
                 timestamp |-> SetHoursBack(reads[j],
                                            (dataPoints - 1 - i) * hourOffset)]]

\* mutant: the first element
getEarliestPrice(ps) == ps[1]

getLatestPrice(ps) == ps[Len(ps)]

\* mutant: the spread comes last, the draft's own id and timestamp win
NewOrderSpreadLast(insertOrder, id, t) ==
    [type |-> insertOrder.type,
     symbol |-> insertOrder.symbol,
     id |-> IF insertOrder.id # Absent THEN insertOrder.id ELSE id,
     timestamp |-> IF insertOrder.timestamp # Absent
                   THEN insertOrder.timestamp ELSE t,
     price |-> NumberToString(insertOrder.price),
     amount |-> NumberToString(insertOrder.amount)]

\* createOrder: the order stored for a draft.  The spread ...insertOrder
\* comes first, so an id or timestamp the draft carries is overwritten.
NewOrder(insertOrder, id, t) ==
    [type |-> insertOrder.type,
     symbol |-> insertOrder.symbol,
     id |-> id,
     timestamp |-> t,
     price |-> NumberToString(insertOrder.price),
     amount |-> NumberToString(insertOrder.amount)]

\* mutant: an order whose amount is not positive is dropped
PushOrderChecked(os, order) ==
    IF FPositive(ParseFloat(order.amount)) THEN Append(os, order) ELSE os

\* mutant: unshift in place of push
PushOrderFront(os, order) == <<order>> \o os

\* this.orders.push(order)
PushOrder(os, order) == Append(os, order)

\* mutant: the counter is not incremented
NextIdStuck(id) == id

\* mutant: the counter skips a value on every append
NextIdSkipping(id) == id + 2

\* this.currentId++ : the value after the increment
NextId(id) == id + 1

\* ------------------------------------------------------ getPortfolio
\* The accumulator of the reduce is a plain object {}: its own properties,
\* in insertion order, are the entries [symbol, qty]; a key it does not own
\* is read from Object.prototype.
ObjectPrototypeKeys ==
    {"constructor", "toString", "valueOf", "hasOwnProperty", "isPrototypeOf",
     "propertyIsEnumerable", "toLocaleString"}
Undefined == [k |-> "undef", n |-> 0]
Function == [k |-> "fn", n |-> 0]
String == [k |-> "str", n |-> 0]

OwnIndex(acc, symbol) ==
    IF \E i \in 1..Len(acc) : acc[i].symbol = symbol
    THEN CHOOSE i \in 1..Len(acc) : acc[i].symbol = symbol
    ELSE 0

\* acc[symbol]
GetProperty(acc, symbol) ==
    IF OwnIndex(acc, symbol) # 0 THEN acc[OwnIndex(acc, symbol)].qty
    ELSE IF symbol \in ObjectPrototypeKeys THEN Function
    ELSE Undefined

\* acc[symbol] = v
SetProperty(acc, symbol, v) ==
    IF OwnIndex(acc, symbol) # 0
    THEN [acc EXCEPT ![OwnIndex(acc, symbol)].qty = v]
    ELSE Append(acc, [symbol |-> symbol, qty |-> v])

\* !v
Falsy(v) == v.k = "undef" \/ v.k = "nan" \/ (v.k = "num" /\ v.n = 0)

\* v + x for a number x: a function or a string concatenates
JsPlus(v, x) == IF v.k \in {"fn", "str"} THEN String ELSE FAdd(v, x)

\* v * x for a number x: the text of a function is not a number
JsTimes(v, x) == IF v.k \in {"fn", "str"} THEN NaN ELSE FMul(v, x)

\* mutant: a sell the position does not cover is left out of the quantities
TokenStepCovered(acc, order) ==
    LET amount == ParseFloat(order.amount)
        acc0 == IF Falsy(GetProperty(acc, order.symbol))
                THEN SetProperty(acc, order.symbol, Dec(0, 0))
                ELSE acc
        held == GetProperty(acc0, order.symbol)
    IN  IF order.type = "sell" /\ held.k = "num" /\ held.n < amount.n
        THEN acc0
        ELSE SetProperty(acc0, order.symbol,
                 JsPlus(held, IF order.type = "buy" THEN amount
                              ELSE FNeg(amount)))

\* one step of the reduce over this.orders, on the token quantities
TokenStep(acc, order) ==
    LET amount == ParseFloat(order.amount)
        acc0 == IF Falsy(GetProperty(acc, order.symbol))
                THEN SetProperty(acc, order.symbol, Dec(0, 0))
                ELSE acc
    IN  SetProperty(acc0, order.symbol,
            JsPlus(GetProperty(acc0, order.symbol),
                   IF order.type = "buy" THEN amount ELSE FNeg(amount)))

\* the same step, on availableBalance
BalanceStep(availableBalance, order) ==
    LET amount == ParseFloat(order.amount)
        price == ParseFloat(order.price)
        orderValue == FMul(amount, price)
    IN  IF order.type = "buy" THEN FSub(availableBalance, orderValue)
        ELSE FAdd(availableBalance, orderValue)

RECURSIVE TokenBalances(_)
TokenBalances(os) ==
    IF os = <<>> THEN <<>>
    ELSE TokenStep(TokenBalances(SubSeq(os, 1, Len(os) - 1)), os[Len(os)])

\* mutant: the running balance starts from 0
RECURSIVE AvailableBalanceFromZero(_)
AvailableBalanceFromZero(os) ==
    IF os = <<>> THEN Dec(0, 0)
    ELSE BalanceStep(AvailableBalanceFromZero(SubSeq(os, 1, Len(os) - 1)),
                     os[Len(os)])

RECURSIVE AvailableBalance(_)
AvailableBalance(os) ==
    IF os = <<>> THEN Dec(INITIAL_BALANCE, 0)
    ELSE BalanceStep(AvailableBalance(SubSeq(os, 1, Len(os) - 1)), os[Len(os)])

\* mutant: the series is marked at its first price
EarliestPrice(ps) == ParseFloat(ps[1].price)

\* parseFloat(this.prices[this.prices.length - 1].price)
LatestPrice(ps) == ParseFloat(ps[Len(ps)].price)

\* Object.values(tokenBalances).reduce(sum + tokenAmount * latestPrice, 0)
RECURSIVE TokensValue(_, _)
TokensValue(acc, latestPrice) ==
    IF acc = <<>> THEN Dec(0, 0)
    ELSE FAdd(TokensValue(SubSeq(acc, 1, Len(acc) - 1), latestPrice),
              JsTimes(acc[Len(acc)].qty, latestPrice))

getPortfolio(os, ps) ==
    LET availableBalance == AvailableBalance(os)
        tokensValue == TokensValue(TokenBalances(os), LatestPrice(ps))
    IN  [balance |-> availableBalance,
         value |-> FAdd(availableBalance, tokensValue)]

\* ------------------------------------------- client: Portfolio page
\* tokenCostData is a plain object {} filled by orders.forEach: its own
\* entries are kept in insertion order.  For a symbol that is a key of
\* Object.prototype, tokenCostData[symbol] is the inherited function, which
\* is truthy: no entry is created and .cost and .quantity are read from and
\* written to that function (own FALSE), starting from undefined.
CostIndex(data, symbol) ==
    IF \E i \in 1..Len(data) : data[i].symbol = symbol
    THEN CHOOSE i \in 1..Len(data) : data[i].symbol = symbol
    ELSE 0

\* v + x and v - x for a number x: undefined gives NaN
JsAdd(v, x) == IF v.k = "undef" THEN NaN ELSE JsPlus(v, x)
JsSub(v, x) == IF v.k = "undef" THEN NaN ELSE JsPlus(v, FNeg(x))

\* the body of orders.forEach
CostStep(data, order) ==
    LET symbol == order.symbol
        amount == ParseFloat(order.amount)
        price == ParseFloat(IF order.price = <<>> THEN <<"0">> ELSE order.price)
        data0 == IF CostIndex(data, symbol) # 0 THEN data
                 ELSE IF symbol \in ObjectPrototypeKeys
                 THEN Append(data, [symbol |-> symbol, cost |-> Undefined,
                                    quantity |-> Undefined, own |-> FALSE])
                 ELSE Append(data, [symbol |-> symbol, cost |-> Dec(0, 0),
                                    quantity |-> Dec(0, 0), own |-> TRUE])
        i == CostIndex(data0, symbol)
        costChange == FMul(price, amount)
    IN  IF order.type = "buy"
        THEN [data0 EXCEPT ![i].cost = JsAdd(@, costChange),
                           ![i].quantity = JsAdd(@, amount)]
        ELSE [data0 EXCEPT ![i].cost = JsSub(@, costChange),
                           ![i].quantity = JsSub(@, amount)]

RECURSIVE tokenCostData(_)
tokenCostData(os) ==
    IF os = <<>> THEN <<>>
    ELSE CostStep(tokenCostData(SubSeq(os, 1, Len(os) - 1)), os[Len(os)])

\* ---------------------------------------------------------- requests
\* Request bodies of POST /api/orders.
Body(type, amount, price, symbol) ==
    [type |-> type, amount |-> amount, price |-> price, symbol |-> symbol,
     id |-> Absent, timestamp |-> Absent]

ValidBodies ==
    { Body("buy", JNumber(Dec(0, 2)), JNumber(Dec(100, 0)), "NXP"),
      [Body("sell", JNumber(Dec(0, 2)), JNumber(Dec(97, 2)), "NXP")
          EXCEPT !.id = 99, !.timestamp = 7],
      Body("buy", JNumber(Dec(1, 0)), JNumber(Dec(100, 0)), "constructor") }

InvalidBodies ==
    { Body("buy", JNumber(Dec(0, 0)), JNumber(Dec(100, 0)), "NXP"),
      Body("buy", JNumber(FNeg(Dec(5, 0))), JNumber(Dec(100, 0)), "NXP"),
      Body("buy", JString(Dec(10, 0)), JNumber(Dec(100, 0)), "NXP"),
      Body("sell", JNumber(Dec(10, 0)), JNumber(Dec(0, 0)), "NXP"),
      Body("sell", JNumber(Dec(10, 0)), JNumber(FNeg(Dec(1, 0))), "NXP"),
      Body("buy", JNumber(Dec(10, 0)), JNumber(Dec(100, 0)), ""),
      Body("hold", JNumber(Dec(10, 0)), JNumber(Dec(100, 0)), "NXP") }

Bodies == ValidBodies \cup InvalidBodies

\* the instants the clock shows; Tick moves to the next one
Clock == <<11579, 11580>>

Timeframes == {"1H", "24H", "7D", "badvalue", ""}

ClockSet == {Clock[i] : i \in 1..Len(Clock)}

\* the instant after t, t itself when it is the last
After(t) ==
    LET later == {u \in ClockSet : u > t}
    IN  IF later = {} THEN t ELSE CHOOSE u \in later : \A v \in later : u <= v

\* The clock reads of one loop of n iterations begun at t: all t when the
\* clock does not move during the loop, else t in the first half of the
\* iterations and the next instant from then on.
Reads(t, moves, n) ==
    [j \in 1..n |-> IF moves /\ j > n \div 2 THEN After(t) ELSE t]

\* generateMockPrices for every argument the model calls it with, computed
\* once
Generated ==
    [timeframe \in Timeframes \ {""}, t \in ClockSet, moves \in BOOLEAN,
     seed \in Seeds |->
        generateMockPrices(timeframe, Reads(t, moves, DataPoints(timeframe)),
                           seed)]

\* z.string().email()
WellFormedEmails == {"ada@solon.io", "bob@solon.io", "cy@solon.io"}
ZEmail(email) == email \in WellFormedEmails

\* the emails posted to /api/waitlist beside the other routes, and when the
\* waitlist is exercised alone
Emails == {"ada@solon.io", "not-an-email"}
WaitlistPosts == WellFormedEmails \cup {"not-an-email"}

\* The last response sent (or, for the store called directly, the last
\* call's return): op names the route, req / query / email are what the
\* request carried, and one field per kind of answer holds what was sent.
\* A field the response does not use keeps the value below.
NoBody == Body("", JNumber(Dec(0, 0)), JNumber(Dec(0, 0)), "")
NoDraft == InsertOrderParse(NoBody)
NoOrder ==
    [type |-> "", symbol |-> "", id |-> 0, timestamp |-> 0, price |-> <<>>,
     amount |-> <<>>]
NoPoint == [id |-> 0, price |-> <<>>, timestamp |-> 0]
NoPortfolio == [balance |-> Dec(0, 0), value |-> Dec(0, 0)]
NoResponse ==
    [op |-> "none", status |-> 0, result |-> "", query |-> "", email |-> "",
     req |-> NoBody, draft |-> NoDraft, order |-> NoOrder, orders |-> <<>>,
     point |-> NoPoint, portfolio |-> NoPortfolio, success |-> FALSE,
     message |-> "", log |-> ""]
Response(op, status) == [NoResponse EXCEPT !.op = op, !.status = status]

Includes(seq, x) == \E i \in 1..Len(seq) : seq[i] = x

\* --------------------------------------------- client: Market page
\* The page at /market/NXP.  Each query holds the data of its last fetch
\* (undefined until the first one arrives, kept while a refetch is under
\* way); the form holds the amount; the order mutation holds the request it
\* has sent and how far that request has got.
tokenSymbol == "NXP"

\* what the amount field is set to
FormAmounts == {Dec(0, 0), Dec(1, 0), Dec(5, 0)}

NoPage ==
    [portfolio |-> NoPortfolio, portfolioLoaded |-> FALSE,
     portfolioStale |-> FALSE,
     orders |-> <<>>, ordersLoaded |-> FALSE, ordersStale |-> FALSE,
     latestPrice |-> NoPoint, loadingPrice |-> TRUE,
     amount |-> Dec(1, 0),
     isPending |-> FALSE, request |-> NoBody, answer |-> 0,
     toast |-> ""]

\* tokenQuantities[tokenSymbol] || 0 over the fetched orders
tokenQuantity(os) ==
    LET mine == SelectSeq(os, LAMBDA order : order.symbol = tokenSymbol)
        q == GetProperty(TokenBalances(mine), tokenSymbol)
    IN  IF Falsy(q) THEN Dec(0, 0) ELSE q

\* portfolio?.balance || 0
PageBalance(pg) ==
    IF ~pg.portfolioLoaded \/ Falsy(pg.portfolio.balance) THEN Dec(0, 0)
    ELSE pg.portfolio.balance

\* parseFloat(latestPrice?.price || "0")
PagePrice(pg) ==
    ParseFloat(IF pg.loadingPrice \/ pg.latestPrice.price = <<>>
               THEN <<"0">> ELSE pg.latestPrice.price)

\* x < y
FLess(x, y) == x.k = "num" /\ y.k = "num" /\ x.n < y.n

\* type === "sell" && (portfolio?.balance || 0) < amount
SellRefused(pg, amount) == FLess(PageBalance(pg), amount)

\* type === "buy" && (portfolio?.balance || 0) < orderValue
BuyRefused(pg, orderValue) == FLess(PageBalance(pg), orderValue)

\* the toast onSubmit shows, "" when it goes on to orderMutation.mutate
SubmitToast(pg, type) ==
    LET amount == pg.amount
        currentPrice == PagePrice(pg)
        orderValue == FMul(amount, currentPrice)
    IN  IF ~FPositive(amount) THEN "Invalid amount"
        ELSE IF ~FPositive(currentPrice) THEN "Invalid price"
        ELSE IF type = "buy" /\ BuyRefused(pg, orderValue)
        THEN "Insufficient balance: cash"
        ELSE IF type = "sell" /\ SellRefused(pg, amount)
        THEN "Insufficient balance: tokens"
        ELSE ""

\* ------------------------------------------------------------ actions
Init ==
    /\ now = Clock[1]
    /\ \E seed \in Seeds : prices = Generated["24H", Clock[1], FALSE, seed]
    /\ orders = <<>>
    /\ currentId = 1
    /\ waitlistEmails = <<>>
    /\ sending = {}
    /\ responding = {}
    /\ res = NoResponse
    /\ page = NoPage

Tick ==
    /\ \E i \in 1..(Len(Clock) - 1) : now = Clock[i] /\ now' = Clock[i + 1]
    /\ UNCHANGED <<prices, orders, currentId, waitlistEmails, sending, res,
                   responding, page>>

\* mutant: the latest price is taken from a freshly generated series
GetLatestPriceRegenerating ==
    \E seed \in Seeds :
        /\ prices' = Generated["24H", now, FALSE, seed]
        /\ res' = [Response("getLatestPrice", 200)
                     EXCEPT !.point = getLatestPrice(prices')]
        /\ UNCHANGED <<orders, currentId, waitlistEmails, sending, now,
                       responding, page>>

\* GET /api/prices/latest
GetLatestPrice ==
    /\ res' = [Response("getLatestPrice", 200)
                 EXCEPT !.point = getLatestPrice(prices)]
    /\ UNCHANGED <<prices, orders, currentId, waitlistEmails, sending, now,
                   responding, page>>

\* GET /api/prices/history: getPriceHistory(req.query.timeframe || '24H').
\* The clock may move on while the loop of generateMockPrices runs.
GetPriceHistory ==
    \E query \in Timeframes, seed \in Seeds, moves \in BOOLEAN :
        LET timeframe == IF query = "" THEN "24H" ELSE query
        IN  /\ moves => After(now) # now
            /\ prices' = Generated[timeframe, now, moves, seed]
            /\ now' = IF moves THEN After(now) ELSE now
            /\ res' = [Response("getPriceHistory", 200)
                         EXCEPT !.query = query, !.message = "this.prices"]
            /\ UNCHANGED <<orders, currentId, waitlistEmails, sending,
                           responding, page>>

\* mutant: the store refuses a buy the balance does not cover and a sell
\* the position does not cover
createOrderSolvent(insertOrder) ==
    /\ LET value == FMul(insertOrder.amount, insertOrder.price)
           held == GetProperty(TokenBalances(orders), insertOrder.symbol)
       IN  IF insertOrder.type = "buy"
           THEN FSub(AvailableBalance(orders), value).n >= 0
           ELSE held.k = "num" /\ FSub(held, insertOrder.amount).n >= 0
    /\ orders' = PushOrder(orders, NewOrder(insertOrder, currentId, now))
    /\ currentId' = NextId(currentId)

\* MemStorage.createOrder
createOrder(insertOrder) ==
    /\ orders' = PushOrder(orders, NewOrder(insertOrder, currentId, now))
    /\ currentId' = NextId(currentId)

\* POST /api/orders, for a body among bodies, the ledger capped at limit
PostOrderOf(bodies, limit) ==
    \E body \in bodies :
        \/ /\ InsertOrderValid(body)
           /\ Len(orders) < limit
           /\ createOrder(InsertOrderParse(body))
           /\ res' = [Response("postOrder", 200)
                        EXCEPT !.req = body,
                               !.order = NewOrder(InsertOrderParse(body),
                                                  currentId, now)]
           /\ UNCHANGED <<prices, waitlistEmails, sending, now, responding,
                          page>>
        \/ /\ ~InsertOrderValid(body)
           /\ res' = [Response("postOrder", 400)
                        EXCEPT !.req = body, !.message = "Invalid order data"]
           /\ UNCHANGED <<prices, orders, currentId, waitlistEmails, sending,
                          now, responding, page>>

PostOrder == PostOrderOf(Bodies, MaxOrders)

\* GET /api/orders
GetOrders ==
    /\ res' = [Response("getOrders", 200) EXCEPT !.orders = orders]
    /\ UNCHANGED <<prices, orders, currentId, waitlistEmails, sending, now,
                   responding, page>>

\* mutant: the valuation empties the ledger it has read
GetPortfolioConsuming ==
    /\ res' = [Response("getPortfolio", 200)
                 EXCEPT !.portfolio = getPortfolio(orders, prices)]
    /\ orders' = <<>>
    /\ UNCHANGED <<prices, currentId, waitlistEmails, sending, now,
                   responding, page>>

\* GET /api/portfolio
GetPortfolio ==
    /\ res' = [Response("getPortfolio", 200)
                 EXCEPT !.portfolio = getPortfolio(orders, prices)]
    /\ UNCHANGED <<prices, orders, currentId, waitlistEmails, sending, now,
                   responding, page>>

\* mutant: an email counts as present only once its notification settled
AlreadyOnWaitlistSettled(email) ==
    Includes(waitlistEmails, email) /\ email \notin sending

\* this.waitlistEmails.includes(subscriberEmail)
AlreadyOnWaitlist(email) == Includes(waitlistEmails, email)

\* POST /api/waitlist for an email among emails, up to the await of
\* sendNotificationEmail
PostWaitlistOf(emails) ==
    \E email \in emails :
        \/ /\ ~ZEmail(email)
           /\ res' = [Response("postWaitlist", 400)
                        EXCEPT !.email = email,
                               !.message = "Invalid email address"]
           /\ UNCHANGED <<prices, orders, currentId, waitlistEmails, sending,
                          now, responding, page>>
        \/ /\ ZEmail(email)
           /\ AlreadyOnWaitlist(email)
           /\ res' = [Response("postWaitlist", 409)
                        EXCEPT !.email = email,
                               !.message = "Email already on waitlist"]
           /\ UNCHANGED <<prices, orders, currentId, waitlistEmails, sending,
                          now, responding, page>>
        \/ /\ ZEmail(email)
           /\ ~AlreadyOnWaitlist(email)
           /\ waitlistEmails' = Append(waitlistEmails, email)
           /\ sending' = sending \cup {email}
           /\ UNCHANGED <<prices, orders, currentId, now, res, responding,
                          page>>

PostWaitlist == PostWaitlistOf(Emails)

\* sendNotificationEmail settles, sent or failed (the failure is caught and
\* logged): addToWaitlist returns true
NotificationSettled ==
    \E email \in sending, sent \in BOOLEAN :
        /\ sending' = sending \ {email}
        /\ res' = [Response("postWaitlist", 200)
                     EXCEPT !.email = email, !.success = TRUE,
                            !.message = "Added to waitlist",
                            !.log = IF sent THEN ""
                                    ELSE "Failed to send notification email:"]
        /\ UNCHANGED <<prices, orders, currentId, waitlistEmails, now,
                       responding, page>>

Next ==
    \/ Tick
    \/ GetLatestPrice
    \/ GetPriceHistory
    \/ PostOrder
    \/ GetOrders
    \/ GetPortfolio
    \/ PostWaitlist
    \/ NotificationSettled

Spec == Init /\ [][Next]_vars

\* ------------------------------------------- the store called directly
\* Drafts handed to storage.createOrder without the route's parse: the
\* caller's object as it is, whatever keys it carries.
Unparsed(body) ==
    [InsertOrderParse(body) EXCEPT !.id = body.id,
                                   !.timestamp = body.timestamp]

\* a buy worth more than the initial balance
OverBalance == Body("buy", JNumber(Dec(12, 0)), JNumber(Dec(100, 0)), "QTE")

Drafts ==
    {Unparsed(body) :
        body \in {b \in Bodies \cup {OverBalance} : b.amount.t = "number"}}

\* one call storage.createOrder(draft) and its return
CreateOrderOf(draft) ==
    /\ createOrder(draft)
    /\ res' = [Response("createOrder", 0)
                 EXCEPT !.draft = draft, !.result = "returned",
                        !.order = NewOrder(draft, currentId, now)]
    /\ UNCHANGED <<prices, waitlistEmails, sending, now, responding, page>>

CreateOrderCall ==
    \E draft \in Drafts : Len(orders) < MaxOrders /\ CreateOrderOf(draft)

NextStorage ==
    \/ Tick
    \/ CreateOrderCall
    \/ GetOrders
    \/ GetPortfolio

SpecStorage == Init /\ [][NextStorage]_vars

\* --------------------------------------------- overlapping requests
\* A POST /api/orders handler runs insertOrderSchema.parse and the body of
\* createOrder (which has no await of its own) in one turn, then is
\* suspended at `await storage.createOrder(orderData)`; res.json(order) is
\* sent when it resumes.  Other requests are let in between the two, and
\* suspended handlers resume in any order: at least the interleavings the
\* event loop allows.
PostOrderBegin ==
    \E body \in Bodies :
        \/ /\ InsertOrderValid(body)
           /\ Len(orders) < MaxOrders
           /\ createOrder(InsertOrderParse(body))
           /\ responding' =
                 responding \cup
                   {[req |-> body,
                     order |-> NewOrder(InsertOrderParse(body), currentId, now)]}
           /\ UNCHANGED <<prices, waitlistEmails, sending, now, res, page>>
        \/ /\ ~InsertOrderValid(body)
           /\ res' = [Response("postOrder", 400)
                        EXCEPT !.req = body, !.message = "Invalid order data"]
           /\ UNCHANGED <<prices, orders, currentId, waitlistEmails, sending,
                          now, responding, page>>

PostOrderEnd ==
    \E handler \in responding :
        /\ responding' = responding \ {handler}
        /\ res' = [Response("postOrder", 200)
                     EXCEPT !.req = handler.req, !.order = handler.order]
        /\ UNCHANGED <<prices, orders, currentId, waitlistEmails, sending,
                       now, page>>

NextConcurrent ==
    \/ Tick
    \/ PostOrderBegin
    \/ PostOrderEnd
    \/ GetOrders

SpecConcurrent == Init /\ [][NextConcurrent]_vars

\* ------------------------------------------------ the waitlist alone
\* Requests to POST /api/waitlist for several emails, overlapping: a handler
\* is suspended while its notification is being sent and others run.
PostWaitlistAny == PostWaitlistOf(WaitlistPosts)

NextWaitlist ==
    \/ PostWaitlistAny
    \/ NotificationSettled

SpecWaitlist == Init /\ [][NextWaitlist]_vars

\* ------------------------------------------- the Market page at work
\* The server answers each request in one step; what the model leaves open
\* is when the page's requests reach it and when their answers come back.
server == <<prices, currentId, waitlistEmails, sending, now, responding>>

\* useQuery ["/api/prices/latest"]: the first fetch arrives
QueryLatestPrice ==
    /\ page.loadingPrice
    /\ res' = [Response("getLatestPrice", 200)
                 EXCEPT !.point = getLatestPrice(prices)]
    /\ page' = [page EXCEPT !.latestPrice = getLatestPrice(prices),
                            !.loadingPrice = FALSE]
    /\ UNCHANGED <<server, orders>>

\* useQuery ["/api/portfolio"]: the first fetch, or the refetch after
\* invalidateQueries, arrives
QueryPortfolio ==
    /\ ~page.portfolioLoaded \/ page.portfolioStale
    /\ res' = [Response("getPortfolio", 200)
                 EXCEPT !.portfolio = getPortfolio(orders, prices)]
    /\ page' = [page EXCEPT !.portfolio = getPortfolio(orders, prices),
                            !.portfolioLoaded = TRUE,
                            !.portfolioStale = FALSE]
    /\ UNCHANGED <<server, orders>>

\* useQuery ["/api/orders"], likewise
QueryOrders ==
    /\ ~page.ordersLoaded \/ page.ordersStale
    /\ res' = [Response("getOrders", 200) EXCEPT !.orders = orders]
    /\ page' = [page EXCEPT !.orders = orders, !.ordersLoaded = TRUE,
                            !.ordersStale = FALSE]
    /\ UNCHANGED <<server, orders>>

\* the user edits the amount field
SetAmount ==
    \E amount \in FormAmounts :
        /\ page.amount # amount
        /\ page' = [page EXCEPT !.amount = amount]
        /\ UNCHANGED <<server, orders, res>>

\* a click on Buy or Sell, the button enabled: onSubmit(type)
Click ==
    \E type \in {"buy", "sell"} :
        /\ ~page.isPending
        /\ ~page.loadingPrice
        /\ type = "sell" => FPositive(PageBalance(page))
        /\ page' =
              IF SubmitToast(page, type) # ""
              THEN [page EXCEPT !.toast = SubmitToast(page, type)]
              ELSE [page EXCEPT
                      !.isPending = TRUE,
                      !.answer = 0,
                      !.toast = "",
                      !.request = Body(type, JNumber(page.amount),
                                       JNumber(PagePrice(page)), tokenSymbol)]
        /\ UNCHANGED <<server, orders, res>>

\* the request of the mutation reaches POST /api/orders
OrderRequestHandled ==
    /\ page.isPending
    /\ page.answer = 0
    /\ Len(orders) < MaxOrders
    /\ IF InsertOrderValid(page.request)
       THEN /\ createOrder(InsertOrderParse(page.request))
            /\ res' = [Response("postOrder", 200)
                         EXCEPT !.req = page.request,
                                !.order = NewOrder(
                                    InsertOrderParse(page.request),
                                    currentId, now)]
            /\ page' = [page EXCEPT !.answer = 200]
       ELSE /\ res' = [Response("postOrder", 400)
                         EXCEPT !.req = page.request,
                                !.message = "Invalid order data"]
            /\ page' = [page EXCEPT !.answer = 400]
            /\ UNCHANGED <<orders, currentId>>
    /\ UNCHANGED <<prices, waitlistEmails, sending, now, responding>>

\* the answer comes back: onSuccess invalidates the two queries and resets
\* the form, onError shows the error
MutationSettled ==
    /\ page.isPending
    /\ page.answer # 0
    /\ page' =
          IF page.answer = 200
          THEN [page EXCEPT !.isPending = FALSE,
                            !.ordersStale = TRUE,
                            !.portfolioStale = TRUE,
                            !.toast = "Order placed successfully",
                            !.amount = Dec(1, 0)]
          ELSE [page EXCEPT !.isPending = FALSE, !.toast = "Error"]
    /\ UNCHANGED <<server, orders, res>>

NextMarket ==
    \/ QueryLatestPrice
    \/ QueryPortfolio
    \/ QueryOrders
    \/ SetAmount
    \/ Click
    \/ OrderRequestHandled
    \/ MutationSettled

SpecMarket == Init /\ [][NextMarket]_vars

\* ============================================================ claims
\* the draft is malformed in one of the ways the ledger must reject:
\* amount <= 0, price <= 0, empty symbol, type outside buy/sell
Malformed(amount, price, symbol, type) ==
    \/ (amount.k = "num" /\ amount.n <= 0)
    \/ (price.k = "num" /\ price.n <= 0)
    \/ symbol = ""
    \/ type \notin {"buy", "sell"}

MalformedBody(body) ==
    /\ body.amount.t = "number"
    /\ body.price.t = "number"
    /\ Malformed(body.amount.v, body.price.v, body.symbol, body.type)

\* C1: the k-th successful createOrder returns id k: the stored ids are
\* 1, 2, ... in ledger order, the order just returned carries the ledger's
\* length as id, and the counter is always the number of stored orders + 1
\* (no other request consumes an id).
C1_IdsSequential ==
    /\ currentId = Len(orders) + 1
    /\ \A i \in 1..Len(orders) : orders[i].id = i
    /\ (res.op = "postOrder" /\ res.status = 200) => res.order.id = Len(orders)

\* the second order was just returned, the 1H series having been requested
\* on the way
C1_Witness ==
    /\ Len(orders) = 2
    /\ res.op = "postOrder"
    /\ res.status = 200
    /\ res.order.id = 2
    /\ Len(prices) = 60

\* C2: a malformed draft posted to /api/orders is answered 400 and the
\* step leaves the orders and the id counter as they were.
C2_MalformedRejected ==
    [][ (res'.op = "postOrder" /\ MalformedBody(res'.req))
          => (res'.status = 400 /\ orders' = orders /\ currentId' = currentId) ]_vars

\* a malformed draft was rejected while the ledger held orders
C2_Witness ==
    /\ res.op = "postOrder"
    /\ MalformedBody(res.req)
    /\ res.status = 400
    /\ Len(orders) >= 1

\* the step is a call of createOrder that returned
CreateOrderReturned == res'.op = "createOrder" /\ res' # res

C4_StoredOrdersWellFormed ==
    \A i \in 1..Len(orders) :
        /\ FPositive(ParseFloat(orders[i].amount))
        /\ FPositive(ParseFloat(orders[i].price))
        /\ orders[i].symbol # ""
        /\ orders[i].type \in {"buy", "sell"}

\* the ledger holds a buy and a sell, and a malformed draft was just refused
C4_Witness ==
    /\ \E i \in 1..Len(orders) : orders[i].type = "buy"
    /\ \E i \in 1..Len(orders) : orders[i].type = "sell"
    /\ res.op = "postOrder"
    /\ res.status = 400

\* C5: with an empty ledger getPortfolio returns balance 1000 and value
\* 1000, whatever series is stored.
C5_EmptyLedgerPortfolio ==
    orders = <<>> =>
        /\ getPortfolio(orders, prices)
             = [balance |-> Dec(1000, 0), value |-> Dec(1000, 0)]
        /\ res.op = "getPortfolio"
             => res.portfolio
                  = [balance |-> Dec(1000, 0), value |-> Dec(1000, 0)]

\* getPortfolio answered on the empty ledger after the series was replaced
\* and an email joined the waitlist
C5_Witness ==
    /\ orders = <<>>
    /\ res.op = "getPortfolio"
    /\ Len(prices) = 168
    /\ LatestPrice(prices) # Dec(100, 0)
    /\ waitlistEmails # <<>>

\* --------------------------------------------- valuation, as claimed
\* the orders of os in the order p gives
Permute(os, p) == [i \in 1..Len(os) |-> os[p[i]]]

SymbolsOf(os) == {os[i].symbol : i \in 1..Len(os)}

\* the quantity the valuation holds for a symbol, 0 when it holds none
PositionOf(acc, symbol) ==
    IF OwnIndex(acc, symbol) # 0 THEN acc[OwnIndex(acc, symbol)].qty
    ELSE Dec(0, 0)

\* amount and price of a stored order, as numbers
AmountOf(order) == ParseFloat(order.amount)
PriceOf(order) == ParseFloat(order.price)

\* C6: valuating any permutation of the ledger gives the same balance, the
\* same position per symbol and the same value.
C6_OrderIndependent ==
    \A p \in Permutations(1..Len(orders)) :
        /\ getPortfolio(Permute(orders, p), prices) = getPortfolio(orders, prices)
        /\ \A symbol \in SymbolsOf(orders) :
               PositionOf(TokenBalances(Permute(orders, p)), symbol)
                 = PositionOf(TokenBalances(orders), symbol)

\* C7: when the ledger ends with a buy of a at p1 and a sell of the same a
\* at p2 of one symbol, the symbol's position is what it was before the two
\* and the balance has moved by a * (p2 - p1), computed exactly or in the
\* machine's arithmetic.
C7_BuyThenSell ==
    LET n == Len(orders)
        before == SubSeq(orders, 1, n - 2)
        buy == orders[n - 1]
        sell == orders[n]
        a == AmountOf(buy)
        moved == FSub(AvailableBalance(orders), AvailableBalance(before))
    IN  (/\ n >= 2
         /\ buy.type = "buy"
         /\ sell.type = "sell"
         /\ buy.symbol = sell.symbol
         /\ AmountOf(sell) = a)
        => /\ PositionOf(TokenBalances(orders), buy.symbol)
                = PositionOf(TokenBalances(before), buy.symbol)
           /\ \/ moved = FMul(a, FSub(PriceOf(sell), PriceOf(buy)))
              \/ (AvailableBalance(orders).n - AvailableBalance(before).n) * One
                    = a.n * (PriceOf(sell).n - PriceOf(buy).n)

\* the sum of amount * price over the orders of one type, in the machine's
\* arithmetic and exactly (in squared grid quanta)
RECURSIVE SumOrderValues(_, _)
SumOrderValues(os, type) ==
    IF os = <<>> THEN Dec(0, 0)
    ELSE LET rest == SumOrderValues(SubSeq(os, 1, Len(os) - 1), type)
             o == os[Len(os)]
         IN  IF o.type = type THEN FAdd(rest, FMul(AmountOf(o), PriceOf(o)))
             ELSE rest

RECURSIVE ExactOrderValues(_, _)
ExactOrderValues(os, type) ==
    IF os = <<>> THEN 0
    ELSE LET rest == ExactOrderValues(SubSeq(os, 1, Len(os) - 1), type)
             o == os[Len(os)]
         IN  IF o.type = type THEN rest + AmountOf(o).n * PriceOf(o).n ELSE rest

\* C8: the balance getPortfolio returns is 1000 minus the sum of amount *
\* price over the buys plus that sum over the sells, computed exactly or in
\* the machine's arithmetic.
C8_BalanceFormula ==
    LET balance == getPortfolio(orders, prices).balance
    IN  \/ balance = FAdd(FSub(Dec(1000, 0), SumOrderValues(orders, "buy")),
                          SumOrderValues(orders, "sell"))
        \/ /\ balance.k = "num"
           /\ balance.n * One = 1000 * One * One
                                  - ExactOrderValues(orders, "buy")
                                  + ExactOrderValues(orders, "sell")

\* the symbols of the ledger, in the order of their first orders
RECURSIVE SymbolsInOrder(_)
SymbolsInOrder(os) ==
    IF os = <<>> THEN <<>>
    ELSE LET rest == SymbolsInOrder(SubSeq(os, 1, Len(os) - 1))
         IN  IF Includes(rest, os[Len(os)].symbol) THEN rest
             ELSE Append(rest, os[Len(os)].symbol)

\* the net position of a symbol: its buys minus its sells
RECURSIVE NetPosition(_, _)
NetPosition(os, symbol) ==
    IF os = <<>> THEN Dec(0, 0)
    ELSE LET rest == NetPosition(SubSeq(os, 1, Len(os) - 1), symbol)
             o == os[Len(os)]
         IN  IF o.symbol # symbol THEN rest
             ELSE IF o.type = "buy" THEN FAdd(rest, AmountOf(o))
             ELSE FSub(rest, AmountOf(o))

RECURSIVE MarkedPositions(_, _, _)
MarkedPositions(os, symbols, quote) ==
    IF symbols = <<>> THEN Dec(0, 0)
    ELSE FAdd(MarkedPositions(os, SubSeq(symbols, 1, Len(symbols) - 1), quote),
              FMul(NetPosition(os, symbols[Len(symbols)]), quote))

RECURSIVE ExactMarkedPositions(_, _, _)
ExactMarkedPositions(os, symbols, quote) ==
    IF symbols = <<>> THEN 0
    ELSE ExactMarkedPositions(os, SubSeq(symbols, 1, Len(symbols) - 1), quote)
           + NetPosition(os, symbols[Len(symbols)]).n * quote.n

\* C9: the value getPortfolio returns is the balance plus the sum over the
\* symbols of net position * L, L the price of the last stored point,
\* computed exactly or in the machine's arithmetic.
C9_ValueFormula ==
    LET portfolio == getPortfolio(orders, prices)
        quote == ParseFloat(prices[Len(prices)].price)
        symbols == SymbolsInOrder(orders)
    IN  \/ portfolio.value
             = FAdd(portfolio.balance, MarkedPositions(orders, symbols, quote))
        \/ /\ portfolio.value.k = "num"
           /\ portfolio.value.n * One
                = portfolio.balance.n * One
                    + ExactMarkedPositions(orders, symbols, quote)

\* C10: a step never removes, edits or moves a stored order, and getOrders
\* answers with the ledger, oldest first.
C10_AppendOnly ==
    [][ /\ Len(orders') >= Len(orders)
        /\ SubSeq(orders', 1, Len(orders)) = orders
        /\ res'.op = "getOrders"
             => /\ res'.orders = orders'
                /\ \A i, j \in 1..Len(res'.orders) :
                       i < j => /\ res'.orders[i].id < res'.orders[j].id
                                /\ res'.orders[i].timestamp
                                     <= res'.orders[j].timestamp
      ]_vars

\* getOrders answered with two orders appended at different times
C10_Witness ==
    /\ res.op = "getOrders"
    /\ Len(res.orders) = 2
    /\ res.orders[1].timestamp < res.orders[2].timestamp

\* ------------------------------------------------- the price series
\* the step is a getPriceHistory request that was answered
HistoryServed ==
    res'.op = "getPriceHistory" /\ (res' # res \/ prices' # prices)

\* the number of points claimed for a requested timeframe
PointsClaimed(query) ==
    CASE query = "1H" -> 60
      [] query = "7D" -> 168
      [] OTHER -> 24

\* the difference of the timestamps of points i and i + 1
Spacing(ps, i) == ps[i + 1].timestamp - ps[i].timestamp

\* C11: getPriceHistory answers with the series it stores, of 60 points for
\* 1H, 168 for 7D and 24 for 24H and for any other timeframe, whatever the
\* length of the series stored before; the stored series never has another
\* length.
C11_SeriesLength ==
    /\ [](Len(prices) \in {24, 60, 168})
    /\ [][ HistoryServed
             => /\ Len(prices') = PointsClaimed(res'.query)
                /\ res'.status = 200
                /\ res'.message = "this.prices" ]_vars

\* an unrecognized timeframe was answered with 24 points generated at the
\* later instant
C11_Witness ==
    /\ res.op = "getPriceHistory"
    /\ res.query = "badvalue"
    /\ Len(prices) = 24
    /\ prices[24].timestamp = Clock[2]

\* C12: in a 1H series (the series of 60 points) consecutive points are one
\* minute apart and the last point is at generation time.
C12_MinuteSpacing ==
    Len(prices) = 60 =>
        /\ \A i \in 1..59 : Spacing(prices, i) = 1
        /\ prices[60].timestamp \in ClockSet

\* C13: in a series of 24 or 168 points consecutive points are one hour
\* apart: point i is (n - i) hours before one generation time.
C13_HourlySpacing ==
    Len(prices) # 60 =>
        /\ \A i \in 1..(Len(prices) - 1) : Spacing(prices, i) = 60
        /\ \E t \in ClockSet :
               \A i \in 1..Len(prices) :
                   prices[i].timestamp = t - (Len(prices) - i) * 60

\* C14: along the stored series the timestamps never decrease, and none is
\* later than the last one's.
C14_LastIsMostRecent ==
    /\ \A i \in 1..(Len(prices) - 1) : Spacing(prices, i) >= 0
    /\ \A i \in 1..Len(prices) :
           prices[i].timestamp <= prices[Len(prices)].timestamp

\* C15: the stored series is never empty; it is the 24H series of the
\* constructor until getPriceHistory is answered, and from then on the
\* series of the last getPriceHistory; getLatestPrice answers with its last
\* element.
C15_LatestOfLastSeries ==
    /\ prices \in {Generated["24H", Clock[1], FALSE, seed] : seed \in Seeds}
    /\ [](/\ Len(prices) >= 1
          /\ res.op = "getLatestPrice" => res.point = prices[Len(prices)])
    /\ [][ /\ prices' # prices => HistoryServed
           /\ HistoryServed
                => \E moves \in BOOLEAN, seed \in Seeds :
                       prices' = Generated[IF res'.query = "" THEN "24H"
                                           ELSE res'.query, now, moves, seed]
         ]_vars

\* getLatestPrice answered after a 7D series replaced the constructor's
C15_Witness ==
    /\ res.op = "getLatestPrice"
    /\ Len(prices) = 168
    /\ res.point.id = 168

\* C16: the ids of the stored series are 1, 2, ..., n in series order.
C16_PointIds ==
    \A i \in 1..Len(prices) : prices[i].id = i

\* a 1H series is stored
C16_Witness ==
    /\ Len(prices) = 60
    /\ res.op = "getPriceHistory"
    /\ res.query = "1H"

\* C17: every stored price is positive, within 100 +/- 1 in a 1H series
\* (60 points) and within 100 +/- 5 in the others.
C17_PriceRange ==
    \A text \in {prices[i].price : i \in 1..Len(prices)} :
        LET price == ParseFloat(text)
            scale == IF Len(prices) = 60 THEN 1 ELSE 5
        IN  /\ FPositive(price)
            /\ price.k = "num"
            /\ Dec(100 - scale, 0).n <= price.n
            /\ price.n <= Dec(100 + scale, 0).n

\* a 1H series holds the lowest price a draw can give, 99
C17_Witness ==
    /\ Len(prices) = 60
    /\ \E i \in 1..60 : ParseFloat(prices[i].price) = Dec(99, 0)

\* ------------------------------------------------- valuation, again
\* the step is a getPortfolio request that was answered
PortfolioServed == res'.op = "getPortfolio" /\ res' # res

\* C18: a getPortfolio request leaves the ledger, the id counter, the
\* stored series and the waitlist as they were.
C18_GetPortfolioReadOnly ==
    [][ PortfolioServed
          => UNCHANGED <<orders, currentId, prices, waitlistEmails>> ]_vars

\* getPortfolio answered with orders in the ledger, a 1H series stored and
\* an email on the waitlist
C18_Witness ==
    /\ res.op = "getPortfolio"
    /\ Len(orders) = 2
    /\ Len(prices) = 60
    /\ waitlistEmails # <<>>

\* the series the model generates, grouped by the price they end with
AllSeries == {Generated[k] : k \in DOMAIN Generated}
SeriesByLatest ==
    [text \in {ps[Len(ps)].price : ps \in AllSeries} |->
        {ps \in AllSeries : ps[Len(ps)].price = text}]
SeriesEndingAt(text) == SeriesByLatest[text]

\* C19: a getPortfolio response is the valuation of the ledger at the
\* latest price and of nothing else: while it is the last response it is
\* the valuation of the current state (a second getPortfolio with no order
\* and no series in between answers the same), and the valuation against
\* any other series ending with the same price is identical.
C19_ValuationDeterministic ==
    res.op = "getPortfolio" =>
        /\ res.portfolio = getPortfolio(orders, prices)
        /\ \A ps \in SeriesEndingAt(prices[Len(prices)].price) :
               getPortfolio(orders, ps) = res.portfolio

\* getPortfolio answered on a ledger holding a position, while another
\* series than the stored one ends with the same price
C19_Witness ==
    /\ res.op = "getPortfolio"
    /\ Len(orders) = 1
    /\ orders[1].symbol = "NXP"
    /\ \E ps \in SeriesEndingAt(prices[Len(prices)].price) :
           ps[1].price # prices[1].price

\* ------------------------------------------------ overlapping appends
\* the positions of the ledger holding the order
PositionsOf(order) == {i \in 1..Len(orders) : orders[i] = order}

\* C20: however the createOrder requests overlap, the ids along the ledger
\* are 1, 2, ... (strictly increasing), the orders awaiting their response
\* and the order last returned have pairwise distinct ids and are each in
\* the ledger exactly once, and a step appends exactly one order when it
\* accepts a request and none otherwise.
C20_AppendsAtomic ==
    /\ [](/\ \A i \in 1..Len(orders) : orders[i].id = i
          /\ \A h \in responding : Cardinality(PositionsOf(h.order)) = 1
          /\ \A g, h \in responding : g # h => g.order.id # h.order.id
          /\ (res.op = "postOrder" /\ res.status = 200)
               => /\ Cardinality(PositionsOf(res.order)) = 1
                  /\ \A h \in responding : h.order.id # res.order.id)
    /\ [][ /\ Len(orders') - Len(orders)
               = Cardinality(responding' \ responding)
           /\ SubSeq(orders', 1, Len(orders)) = orders ]_vars

\* the second request was answered while the first, accepted before it, is
\* still awaiting its response
C20_Witness ==
    /\ res.op = "postOrder"
    /\ res.status = 200
    /\ res.order.id = 2
    /\ \E h \in responding : h.order.id = 1

\* ---------------------------------------------------------------- C21
\* the drafts the schema would accept
ValidDrafts ==
    {draft \in Drafts :
        /\ draft.type \in {"buy", "sell"}
        /\ FPositive(draft.amount)
        /\ FPositive(draft.price)
        /\ draft.symbol # ""}

\* the net quantity of symbol a ledger holds, 0 when it never traded
Held(os, symbol) ==
    LET q == GetProperty(TokenBalances(os), symbol)
    IN  IF q.k = "num" THEN q.n ELSE 0

\* C21: in every state, whatever the balance and the positions, createOrder
\* of any valid draft can run, appends the order and returns (the ledger
\* below its modelled capacity); nothing in it looks at the portfolio.
C21_AcceptsUnconditionally ==
    Len(orders) < MaxOrders =>
        \A draft \in ValidDrafts : ENABLED CreateOrderOf(draft)

\* createOrder has just stored a buy the balance did not cover, on a ledger
\* that had oversold: balance and position are both negative
C21_Witness ==
    /\ res.op = "createOrder"
    /\ res.result = "returned"
    /\ res.order.type = "buy"
    /\ Len(orders) = 2
    /\ orders[2] = res.order
    /\ AvailableBalance(orders).n < 0
    /\ Held(SubSeq(orders, 1, 1), "NXP") < 0

\* ---------------------------------------------------------------- C22
\* the ledger has a symbol that is a key of Object.prototype
HasPrototypeSymbol(os) == \E i \in 1..Len(os) : os[i].symbol \in ObjectPrototypeKeys

C23_LedgerAssignsIdAndTime ==
    [][ (CreateOrderReturned /\ res'.draft \in ValidDrafts)
          => LET stored == orders'[Len(orders')]
                 draft == res'.draft
             IN  /\ Len(orders') = Len(orders) + 1
                 /\ stored = res'.order
                 /\ stored.id = currentId
                 /\ stored.timestamp = now
                 /\ stored.type = draft.type
                 /\ stored.symbol = draft.symbol
                 /\ stored.amount = NumberToString(draft.amount)
                 /\ stored.price = NumberToString(draft.price)
                 /\ ParseFloat(stored.amount) = draft.amount
                 /\ ParseFloat(stored.price) = draft.price ]_vars

\* createOrder has stored a draft that carried an id and a timestamp of its
\* own, at a price that is not the latest price of the series
C23_Witness ==
    /\ res.op = "createOrder"
    /\ res.result = "returned"
    /\ res.draft \in ValidDrafts
    /\ res.draft.id # Absent
    /\ res.draft.timestamp # Absent
    /\ orders # <<>>
    /\ orders[Len(orders)] = res.order
    /\ res.order.id # res.draft.id
    /\ res.order.timestamp # res.draft.timestamp
    /\ ParseFloat(res.order.price) # LatestPrice(prices)

\* ---------------------------------------------------------------- C24
\* the number of times x occurs in seq
Occurrences(seq, x) == Cardinality({i \in 1..Len(seq) : seq[i] = x})

\* the step answers a waitlist request
WaitlistAnswered == res'.op = "postWaitlist" /\ res' # res

\* a step that changes the registry appends one email it did not hold and
\* suspends the call at its notification
InsertsNewEmail ==
    waitlistEmails' # waitlistEmails
      => \E email \in WellFormedEmails :
            /\ ~Includes(waitlistEmails, email)
            /\ email \notin sending
            /\ waitlistEmails' = Append(waitlistEmails, email)
            /\ sending' = sending \cup {email}

\* true is the answer to the call that inserted the email, and ends it
TrueToTheInserter ==
    (WaitlistAnswered /\ res'.status = 200)
      => /\ res'.success
         /\ res'.email \in sending
         /\ sending' = sending \ {res'.email}
         /\ Includes(waitlistEmails', res'.email)
         /\ waitlistEmails' = waitlistEmails

\* a call answered at once for a well-formed email is answered false, and
\* false is answered only for an email the registry holds
FalseToTheOthers ==
    /\ (WaitlistAnswered /\ res'.status = 409)
          => /\ ~res'.success
             /\ Includes(waitlistEmails, res'.email)
             /\ UNCHANGED <<waitlistEmails, sending>>
    /\ (WaitlistAnswered /\ ZEmail(res'.email) /\ sending' = sending)
          => /\ res'.status = 409
             /\ Includes(waitlistEmails, res'.email)

\* C24: the registry never holds an email twice and every call still
\* awaiting its notification is for a registered email.  A call inserts
\* its email only when the registry does not hold it, and only that call is
\* answered true, once, whether the notification was sent or failed, the
\* email staying registered; a call for an email the registry holds, the
\* first call still awaiting its notification or not, is answered false
\* and changes nothing.
C24_AddOnceThenFalse ==
    /\ [](\A email \in WaitlistPosts : Occurrences(waitlistEmails, email) <= 1)
    /\ [](\A email \in sending : Includes(waitlistEmails, email))
    /\ [][InsertsNewEmail /\ TrueToTheInserter /\ FalseToTheOthers]_vars

\* a second request for an email was answered false while the first was
\* still awaiting its notification; another email, whose call has been
\* answered, is registered beside it
C24_Witness ==
    /\ res.op = "postWaitlist"
    /\ res.status = 409
    /\ res.email \in sending
    /\ Occurrences(waitlistEmails, res.email) = 1
    /\ \E other \in WellFormedEmails \ sending :
           Includes(waitlistEmails, other)
    /\ Len(waitlistEmails) = 2

\* ---------------------------------------------------------------- C25
\* the orders of one symbol, in ledger order
OrdersOf(os, symbol) == SelectSeq(os, LAMBDA o : o.symbol = symbol)

\* tokenCostData[symbol] of a ledger that trades the symbol
CostEntry(os, symbol) ==
    tokenCostData(os)[CostIndex(tokenCostData(os), symbol)]

\* C25: for every symbol of the ledger, the cost tokenCostData holds is
\* the sum of amount * price over the symbol's buys minus that sum over
\* its sells, and the quantity is the symbol's net position, each computed
\* exactly or in the machine's arithmetic.
C25_CostBasis ==
    \A symbol \in SymbolsOf(orders) :
        LET entry == CostEntry(orders, symbol)
            mine == OrdersOf(orders, symbol)
        IN  /\ \/ entry.cost = FSub(SumOrderValues(mine, "buy"),
                                    SumOrderValues(mine, "sell"))
               \/ /\ entry.cost.k = "num"
                  /\ entry.cost.n * One
                       = ExactOrderValues(mine, "buy")
                           - ExactOrderValues(mine, "sell")
            /\ entry.quantity = NetPosition(orders, symbol)

\* ---------------------------------------------------------------- C26
\* the costs tokenCostData holds for the symbols, summed in the machine's
\* arithmetic and exactly (in grid quanta)
RECURSIVE SumCosts(_, _)
SumCosts(os, symbols) ==
    IF symbols = <<>> THEN Dec(0, 0)
    ELSE JsPlus(SumCosts(os, SubSeq(symbols, 1, Len(symbols) - 1)),
                CostEntry(os, symbols[Len(symbols)]).cost)

RECURSIVE ExactCosts(_, _)
ExactCosts(os, symbols) ==
    IF symbols = <<>> THEN 0
    ELSE ExactCosts(os, SubSeq(symbols, 1, Len(symbols) - 1))
           + CostEntry(os, symbols[Len(symbols)]).cost.n

\* C26: the balance getPortfolio returns plus the sum over the ledger's
\* symbols of the cost basis is 1000, computed exactly or in the machine's
\* arithmetic.
C26_CashConservation ==
    LET balance == getPortfolio(orders, prices).balance
        symbols == SymbolsInOrder(orders)
    IN  \/ FAdd(balance, SumCosts(orders, symbols)) = Dec(INITIAL_BALANCE, 0)
        \/ /\ \A i \in 1..Len(symbols) :
                  CostEntry(orders, symbols[i]).cost.k = "num"
           /\ balance.n + ExactCosts(orders, symbols) = INITIAL_BALANCE * One

\* ---------------------------------------------------------------- C27
\* the step is a getLatestPrice request that was answered
LatestServed == res'.op = "getLatestPrice" /\ res' # res

\* a getPriceHistory request touches the stored series alone; when it
\* follows a getPortfolio answer, the balance getPortfolio returns after it
\* is the balance of that answer
HistoryTouchesSeriesOnly ==
    (HistoryServed \/ prices' # prices)
      => /\ res'.op = "getPriceHistory"
         /\ UNCHANGED <<orders, currentId, waitlistEmails, sending>>
         /\ res.op = "getPortfolio"
               => getPortfolio(orders', prices').balance
                    = res.portfolio.balance

\* a getLatestPrice request touches nothing and answers with the last
\* point of the series as it stands
LatestTouchesNothing ==
    LatestServed
      => /\ UNCHANGED <<prices, orders, currentId, waitlistEmails, sending>>
         /\ res'.point = getLatestPrice(prices)
         /\ res'.point = getLatestPrice(prices')

\* C27: getPriceHistory changes only the stored series, not the ledger, the
\* id counter or the waitlist, and the balance getPortfolio returns is the
\* same before and after it; getLatestPrice changes no state, and since
\* only getPriceHistory changes the series, getLatestPrice calls with no
\* getPriceHistory between them answer with the same point.
C27_PriceCallsFrame ==
    [][HistoryTouchesSeriesOnly /\ LatestTouchesNothing]_vars

\* getPriceHistory has replaced the series under a ledger holding a
\* position: the balance is the one under the first series, the value is
\* not
C27_Witness ==
    /\ res.op = "getPriceHistory"
    /\ Len(orders) = 1
    /\ Held(orders, "NXP") # 0
    /\ \E seed \in Seeds :
          LET first == getPortfolio(orders, Generated["24H", Clock[1], FALSE, seed])
              last == getPortfolio(orders, prices)
          IN  /\ first.balance = last.balance
              /\ first.value.k = "num"
              /\ last.value.k = "num"
              /\ first.value # last.value

\* ---------------------------------------------------------------- C28
\* C28: with the series as it stands, the last order of the ledger, a buy
\* of a at p, has changed the value getPortfolio returns by a * (L - p), a
\* sell by a * (p - L), L the latest price, computed exactly or in the
\* machine's arithmetic; when p = L the value is what it was without the
\* order.
C28_ValueChangeOnAppend ==
    LET n == Len(orders)
        last == orders[n]
        a == AmountOf(last)
        p == PriceOf(last)
        L == LatestPrice(prices)
        gain == IF last.type = "buy" THEN FSub(L, p) ELSE FSub(p, L)
        was == getPortfolio(SubSeq(orders, 1, n - 1), prices).value
        is == getPortfolio(orders, prices).value
    IN  n >= 1
          => /\ p = L => is = was
             /\ \/ FSub(is, was) = FMul(a, gain)
                \/ /\ is.k = "num"
                   /\ was.k = "num"
                   /\ (is.n - was.n) * One = a.n * gain.n

\* ---------------------------------------------------------------- C29
\* the step is a click that hands an order of the type to the mutation
Submitted(type) ==
    /\ ~page.isPending
    /\ page'.isPending
    /\ page'.request.type = type

\* the step is a click on Sell that onSubmit turns down for want of tokens
SellTurnedDown ==
    /\ page'.toast = "Insufficient balance: tokens"
    /\ page' # page
    /\ ~page'.isPending

\* C29: the page hands a sell to the mutation only when the net quantity of
\* the symbol, in the ledger and as the page counts it from its orders, is
\* at least the amount; a sell it turns down is one the quantity does not
\* cover; and the position of the symbol in the ledger is never negative.
C29_SellNeedsTokens ==
    /\ [](Held(orders, tokenSymbol) >= 0)
    /\ [][ /\ Submitted("sell")
               => /\ Held(orders, tokenSymbol) >= page'.request.amount.v.n
                  /\ ~FLess(tokenQuantity(page.orders),
                            page'.request.amount.v)
           /\ SellTurnedDown
               => FLess(tokenQuantity(page.orders), page.amount) ]_vars

\* ---------------------------------------------------------------- C30
\* C30: the page hands a buy to the mutation only when the balance, the one
\* the page last fetched and the one of the ledger, is at least amount *
\* current price, and the balance of the ledger is never negative, however
\* clicks, order requests and refetches interleave.
C30_BuysCovered ==
    /\ [](AvailableBalance(orders).n >= 0)
    /\ [][ Submitted("buy")
             => LET orderValue == FMul(page'.request.amount.v,
                                       page'.request.price.v)
                IN  /\ ~FLess(PageBalance(page), orderValue)
                    /\ ~FLess(AvailableBalance(orders), orderValue) ]_vars

=============================================================================
